---- MODULE Spec2Model ----
(***************************************************************************)
(* Model of the calendar-card event pipeline: getAllEvents (one concurrent *)
(* request per configured calendar), processEvents (dedup, filters,        *)
(* multi-day expansion, sort) and groupEventsByDay (day grouping and the   *)
(* events limit).                                                          *)
(*                                                                         *)
(* Instants are integers counting minutes; a JavaScript object is a record *)
(* whose absent properties are simply not in its domain.                   *)
(***************************************************************************)
EXTENDS Integers, Sequences, FiniteSets, TLC

VARIABLES
    config,             \* the card configuration of the run
    now,                \* the clock, moment()
    engine,             \* how the host's Array.prototype.sort calls the comparator
    response,           \* per configured entity: what hass.callApi settles with
    pc,                 \* per configured entity: position of its promise chain
    mapped,             \* per configured entity: value passed from the 1st .then to the 2nd
    allEvents,          \* getAllEvents' allEvents / processEvents' argument
    failedEvents,       \* getAllEvents' failedEvents
    result,             \* what getAllEvents / processEvents returned (or that it threw)
    events,             \* groupEventsByDay's argument
    groupedEvents,      \* groupEventsByDay: the groups built by the reduce
    gpc,                \* groupEventsByDay: position ("reduce", "map", "filter", "done")
    gi,                 \* groupEventsByDay: index of the next group the map visits
    numberOfEvents,     \* groupEventsByDay: running total
    hasMaxedOutEvents,  \* groupEventsByDay: the MAXED flag
    mappedGroups,       \* groupEventsByDay: what the map callback returned so far
    groupResult         \* groupEventsByDay: the returned value

vars == <<config, now, engine, response, pc, mapped, allEvents, failedEvents, result,
          events, groupedEvents, gpc, gi, numberOfEvents, hasMaxedOutEvents,
          mappedGroups, groupResult>>

fetchVars == <<response, pc, mapped, failedEvents>>
groupVars == <<events, groupedEvents, gpc, gi, numberOfEvents, hasMaxedOutEvents,
               mappedGroups, groupResult>>

-----------------------------------------------------------------------------
(* Bounds of the model *)

MaxSources == 2     \* configured calendar entities
MaxResponse == 1    \* raw events in one source's response
MaxRaw == 2         \* raw events handed to processEvents on its own
MaxGroupEvents == 4 \* events handed to groupEventsByDay on its own
MaxLimit == 3       \* largest eventsLimit tried
MaxWindow == 2      \* largest numberOfDays tried

-----------------------------------------------------------------------------
(* JavaScript values *)

\* the value of an absent property
Undefined == "undefined"

\* r.f
Prop(r, f) == IF f \in DOMAIN r THEN r[f] ELSE Undefined

\* a || b on values that are undefined or truthy
Or(a, b) == IF a # Undefined THEN a ELSE b

\* array.findIndex(callback), given the callback's result on each element;
\* 0 stands for JavaScript's -1
FindIndex(hits) ==
    IF \E i \in 1..Len(hits) : hits[i]
    THEN CHOOSE i \in 1..Len(hits) : hits[i] /\ \A j \in 1..(i - 1) : ~hits[j]
    ELSE 0

RECURSIVE Flatten(_)
Flatten(ss) == IF ss = <<>> THEN <<>> ELSE Head(ss) \o Flatten(Tail(ss))

\* all sequences over S of length at most n
SeqUpTo(S, n) == UNION {[1..k -> S] : k \in 0..n}

\* how often x occurs in the sequence s
Count(s, x) == Cardinality({i \in 1..Len(s) : s[i] = x})

-----------------------------------------------------------------------------
(* moment: instants in minutes *)

MinutesPerDay == 24 * 60

\* moment(t).format('YYYY-MM-DD'), as the number of the day
DateOf(t) == t \div MinutesPerDay

\* moment(t).startOf('day')
StartOfDay(t) == DateOf(t) * MinutesPerDay

\* moment(t).hour() and moment(t).minutes()
HourOf(t) == (t % MinutesPerDay) \div 60
MinutesOf(t) == t % 60

\* moment(t).add(n, 'days')
AddDays(t, n) == t + n * MinutesPerDay

\* b.diff(a, 'days') for b >= a: whole days, truncated
DiffDays(b, a) == (b - a) \div MinutesPerDay

\* an instant given as day, hour and minute
At(d, h, m) == d * MinutesPerDay + h * 60 + m

-----------------------------------------------------------------------------
(* Entity descriptors of config.entities: a bare entity id (kind "id") or  *)
(* an object {entity, name?} (kind "named")                                *)

BareEntity(id) == [kind |-> "id", value |-> id]
NamedEntity(id, name) == [kind |-> "named", entity |-> id, name |-> name]

\* entity.entity: a string has no such property
EntityOf(d) == IF d.kind = "named" THEN d.entity ELSE Undefined

\* entity.name
NameOf(d) == IF d.kind = "named" THEN Prop(d, "name") ELSE Undefined

\* (entity && entity.entity) || entity
CalendarEntity(d) == IF EntityOf(d) # Undefined THEN EntityOf(d) ELSE d.value

-----------------------------------------------------------------------------
(* CalendarEvent *)

\* new CalendarEvent(raw): the canonical event of a raw record
CalendarEvent(raw) ==
    LET shift == IF "addDays" \in DOMAIN raw THEN raw.addDays ELSE 0
        s == AddDays(raw.start, shift)
        e == AddDays(raw.end, shift)
        base == [rawEvent |-> raw,
                 id |-> Or(Prop(raw, "id"), Prop(raw, "uid")),
                 title |-> Prop(raw, "title"),
                 location |-> Prop(raw, "location"),
                 originCalendar |-> raw.originCalendar,
                 startDateTime |-> s,
                 endDateTime |-> e,
                 isMultiDay |-> (DateOf(raw.end) # DateOf(raw.start))]
    IN  IF "addDays" \in DOMAIN raw
        THEN base @@ [addDays |-> raw.addDays, daysLong |-> raw.daysLong]
        ELSE base

-----------------------------------------------------------------------------
(* processEvents *)

\* the "no match" result of config.entities.find, as a descriptor
NoEntity == [kind |-> "undefined"]

\* (e.id || e.uid) === (event.uid || event.id), the test handed to findIndex
SameEvent(e, event) ==
    Or(Prop(e, "id"), Prop(e, "uid")) = Or(Prop(event, "uid"), Prop(event, "id"))

\* allEvents.filter((event, index, self) => index === self.findIndex(...))
UniqueEvents(all) ==
    LET Keep(i) == i = FindIndex([j \in 1..Len(all) |-> SameEvent(all[j], all[i])])
        kept == SelectSeq([i \in 1..Len(all) |-> i], Keep)
    IN  [k \in 1..Len(kept) |-> all[kept[k]]]

\* config.entities.find(entity => entity.entity === caldavEvent.entity.entity)
OriginCalendar(cfg, caldavEvent) ==
    LET Match(entity) == EntityOf(entity) = EntityOf(caldavEvent.entity)
        i == FindIndex([j \in 1..Len(cfg.entities) |-> Match(cfg.entities[j])])
    IN  IF i = 0 THEN NoEntity ELSE cfg.entities[i]

\* new RegExp(pattern, 'i'): the patterns that do not compile
InvalidPatterns == {"(", "[a-"}

\* regex.test(text) for the compiled, case-insensitive pattern
RegexTest(pattern, text) ==
    <<pattern, text>> \in {<<"standup", "Daily Standup">>, <<"office", "Head Office">>}

\* the occurrences of a multi-day event, one per day of its span
PartialEvents(newEvent, cfg, nowT) ==
    LET endDate == AddDays(StartOfDay(nowT), cfg.numberOfDays)
        whole == DiffDays(newEvent.endDateTime, newEvent.startDateTime) + 1
        daysLong == IF HourOf(newEvent.endDateTime) = 0 /\ MinutesOf(newEvent.endDateTime) = 0
                    THEN whole - 1 ELSE whole
        copy(i) == CalendarEvent([addDays |-> i, daysLong |-> daysLong] @@ newEvent.rawEvent)
    IN  SelectSeq([k \in 1..daysLong |-> copy(k - 1)],
                  LAMBDA partialEvent : endDate > partialEvent.startDateTime)

\* one call of the reduce callback; acc is [status, events], status "threw"
\* once a RegExp constructor has thrown
ConvertEvent(acc, caldavEvent, cfg, nowT) ==
    LET today == StartOfDay(nowT)
        newEvent == CalendarEvent(
            [originCalendar |-> OriginCalendar(cfg, caldavEvent)] @@ caldavEvent)
        titleExpr == cfg.ignoreEventsExpression
        locationExpr == cfg.ignoreEventsByLocationExpression
        useTitle == titleExpr # "" /\ newEvent.title # Undefined
        useLocation == locationExpr # "" /\ newEvent.location # Undefined
    IN  IF acc.status = "threw" THEN acc
        ELSE IF cfg.hidePastEvents /\ newEvent.endDateTime < nowT THEN acc
        ELSE IF cfg.startFromToday /\ today > newEvent.endDateTime THEN acc
        ELSE IF cfg.hidePastEvents /\ newEvent.endDateTime < nowT THEN acc
        ELSE IF useTitle /\ titleExpr \in InvalidPatterns
            THEN [status |-> "threw", events |-> <<>>]
        ELSE IF useTitle /\ RegexTest(titleExpr, newEvent.title) THEN acc
        ELSE IF useLocation /\ locationExpr \in InvalidPatterns
            THEN [status |-> "threw", events |-> <<>>]
        ELSE IF useLocation /\ RegexTest(locationExpr, newEvent.location) THEN acc
        ELSE IF cfg.showMultiDay /\ newEvent.isMultiDay
            THEN [acc EXCEPT !.events = @ \o PartialEvents(newEvent, cfg, nowT)]
        ELSE [acc EXCEPT !.events = Append(@, newEvent)]

\* uniqueEvents.reduce(..., [])
RECURSIVE NewEvents(_, _, _, _)
NewEvents(unique, n, cfg, nowT) ==
    IF n = 0 THEN [status |-> "ok", events |-> <<>>]
    ELSE ConvertEvent(NewEvents(unique, n - 1, cfg, nowT), unique[n], cfg, nowT)

\* (a, b) => a.startDateTime.isBefore(b.startDateTime) ? -1 : 1
Compare(a, b) == IF a.startDateTime < b.startDateTime THEN 0 - 1 ELSE 1

\* whether the sort moves `element` in front of the earlier array element `tmp`.
\* The comparator never returns 0 and so is not a consistent comparator; the
\* order of such a sort is the host's choice, and hosts differ in which argument
\* they pass first.
MovesBefore(element, tmp, eng) ==
    IF eng = "compare(tmp, element)" THEN Compare(tmp, element) > 0
    ELSE Compare(element, tmp) < 0

Engines == {"compare(tmp, element)", "compare(element, tmp)"}

\* one step of the insertion sort: `element` passes every array element it
\* moves before and stops behind the first one (from the back) it does not
InsertSorted(sorted, element, eng) ==
    LET stops == {j \in 1..Len(sorted) : ~MovesBefore(element, sorted[j], eng)} \cup {0}
        j == CHOOSE m \in stops : \A o \in stops : o <= m
    IN  SubSeq(sorted, 1, j) \o <<element>> \o SubSeq(sorted, j + 1, Len(sorted))

\* newEvents.sort(comparator)
RECURSIVE SortEvents(_, _, _)
SortEvents(list, n, eng) ==
    IF n = 0 THEN <<>>
    ELSE InsertSorted(SortEvents(list, n - 1, eng), list[n], eng)

\* processEvents(allEvents, config): [status |-> "ok", events |-> the sorted
\* list], or status "threw" when an exception left the function
ProcessEvents(all, cfg, nowT, eng) ==
    LET uniqueEvents == UniqueEvents(all)
        newEvents == NewEvents(uniqueEvents, Len(uniqueEvents), cfg, nowT)
    IN  IF newEvents.status = "threw" THEN newEvents
        ELSE [status |-> "ok",
              events |-> SortEvents(newEvents.events, Len(newEvents.events), eng)]

-----------------------------------------------------------------------------
(* groupEventsByDay *)

\* one call of the reduce callback: the event joins the group of its day, or
\* opens a new group at the end
AddToGroups(groups, event) ==
    LET day == DateOf(event.startDateTime)
        matchingDateIndex == FindIndex([j \in 1..Len(groups) |-> groups[j].day = day])
    IN  IF matchingDateIndex > 0
        THEN [groups EXCEPT ![matchingDateIndex].events = Append(@, event)]
        ELSE Append(groups, [day |-> day, events |-> <<event>>])

\* events.reduce(..., [])
RECURSIVE GroupByDay(_, _)
GroupByDay(evs, n) ==
    IF n = 0 THEN <<>> ELSE AddToGroups(GroupByDay(evs, n - 1), evs[n])

\* what the map callback returns for a day it drops (a bare `return;`)
NoGroup == [dropped |-> TRUE]

\* the limit test with the boundary moved: maxed out on reaching the limit
MaxedOutAtLimit(limit, total) == limit <= total

\* config.eventsLimit < numberOfEvents
MaxedOut(limit, total) == limit < total

\* the map callback without its early return: days after the overflow are kept
LimitStepWithoutStop(st, group, cfg) ==
    LET total == st.numberOfEvents + Len(group.events)
    IN  [numberOfEvents |-> total,
         hasMaxedOutEvents |-> cfg.eventsLimit < total,
         mappedGroups |-> Append(st.mappedGroups, group)]

\* one call of the map callback on the loop state
\* st = [numberOfEvents, hasMaxedOutEvents, mappedGroups]
LimitStep(st, group, cfg) ==
    IF st.hasMaxedOutEvents
    THEN [st EXCEPT !.mappedGroups = Append(@, NoGroup)]
    ELSE LET total == st.numberOfEvents + Len(group.events)
         IN  [numberOfEvents |-> total,
              hasMaxedOutEvents |-> MaxedOut(cfg.eventsLimit, total),
              mappedGroups |-> Append(st.mappedGroups, group)]

\* .filter(Boolean)
FilterGroups(groups) == SelectSeq(groups, LAMBDA g : g # NoGroup)

RECURSIVE MapGroups(_, _, _)
MapGroups(groups, n, cfg) ==
    IF n = 0
    THEN [numberOfEvents |-> 0, hasMaxedOutEvents |-> FALSE, mappedGroups |-> <<>>]
    ELSE LimitStep(MapGroups(groups, n - 1, cfg), groups[n], cfg)

\* groupEventsByDay(events, config) as a whole
GroupEventsByDay(evs, cfg) ==
    LET groups == GroupByDay(evs, Len(evs))
    IN  FilterGroups(MapGroups(groups, Len(groups), cfg).mappedGroups)

\* the reduce of lines 13-24
GroupReduce ==
    /\ gpc = "reduce"
    /\ groupedEvents' = GroupByDay(events, Len(events))
    /\ gpc' = "map"
    /\ gi' = 1
    /\ numberOfEvents' = 0
    /\ hasMaxedOutEvents' = FALSE
    /\ mappedGroups' = <<>>
    /\ UNCHANGED <<config, now, engine, fetchVars, allEvents, result, events, groupResult>>

\* the map callback on the next group
GroupMap ==
    /\ gpc = "map"
    /\ gi <= Len(groupedEvents)
    /\ LET st == LimitStep([numberOfEvents |-> numberOfEvents,
                            hasMaxedOutEvents |-> hasMaxedOutEvents,
                            mappedGroups |-> mappedGroups],
                           groupedEvents[gi], config)
       IN  /\ numberOfEvents' = st.numberOfEvents
           /\ hasMaxedOutEvents' = st.hasMaxedOutEvents
           /\ mappedGroups' = st.mappedGroups
    /\ gi' = gi + 1
    /\ UNCHANGED <<config, now, engine, fetchVars, allEvents, result, events,
                   groupedEvents, gpc, groupResult>>

\* .filter(Boolean) and the return
GroupReturn ==
    /\ gpc = "map"
    /\ gi > Len(groupedEvents)
    /\ groupResult' = FilterGroups(mappedGroups)
    /\ gpc' = "done"
    /\ UNCHANGED <<config, now, engine, fetchVars, allEvents, result, events,
                   groupedEvents, gi, numberOfEvents, hasMaxedOutEvents, mappedGroups>>

-----------------------------------------------------------------------------
(* getAllEvents *)

\* rawEvents.map(event => { event.entity = entity; return event; })
TagEvents(rawEvents, entity) ==
    [i \in 1..Len(rawEvents) |-> [entity |-> entity] @@ rawEvents[i]]

\* { name: entity.name || calendarEntity, error }
FailedEntry(entity, error) ==
    [name |-> Or(NameOf(entity), CalendarEntity(entity)), error |-> error]

\* the positions in which a source's promise chain has settled
Settled == {"pushed", "failed"}

\* a join that is over as soon as one chain has settled
AnySettled(p) == \E s \in DOMAIN p : p[s] \in Settled

\* await Promise.all(calendarEntityPromises): every chain has settled
AllSettled(p) == \A s \in DOMAIN p : p[s] \in Settled

\* a return that groups the processed events by day before handing them back
ReturnGrouped(all, failed, cfg, nowT, eng) ==
    LET processed == ProcessEvents(all, cfg, nowT, eng)
    IN  IF processed.status = "threw" THEN [status |-> "threw"]
        ELSE [status |-> "returned", failedEvents |-> failed,
              events |-> GroupEventsByDay(processed.events, cfg)]

\* return { failedEvents, events: processEvents(allEvents, config) }
ReturnValue(all, failed, cfg, nowT, eng) ==
    LET processed == ProcessEvents(all, cfg, nowT, eng)
    IN  IF processed.status = "threw" THEN [status |-> "threw"]
        ELSE [status |-> "returned", failedEvents |-> failed, events |-> processed.events]

Sources == DOMAIN pc

\* first .then of a source whose call succeeded: tag the raw events
Tag(s) ==
    /\ pc[s] = "pending"
    /\ response[s].ok
    /\ mapped' = [mapped EXCEPT ![s] = TagEvents(response[s].events, config.entities[s])]
    /\ pc' = [pc EXCEPT ![s] = "tagged"]
    /\ UNCHANGED <<config, now, engine, response, allEvents, failedEvents, result, groupVars>>

\* second .then: allEvents.push(...events)
Push(s) ==
    /\ pc[s] = "tagged"
    /\ allEvents' = allEvents \o mapped[s]
    /\ pc' = [pc EXCEPT ![s] = "pushed"]
    /\ UNCHANGED <<config, now, engine, response, mapped, failedEvents, result, groupVars>>

\* .catch of a source whose call failed
Catch(s) ==
    /\ pc[s] = "pending"
    /\ ~response[s].ok
    /\ failedEvents' = Append(failedEvents, FailedEntry(config.entities[s], response[s].error))
    /\ pc' = [pc EXCEPT ![s] = "failed"]
    /\ UNCHANGED <<config, now, engine, response, mapped, allEvents, result, groupVars>>

\* the await is over: process what was collected and return
Return ==
    /\ result.status = "pending"
    /\ AllSettled(pc)
    /\ result' = ReturnValue(allEvents, failedEvents, config, now, engine)
    /\ UNCHANGED <<config, now, engine, fetchVars, allEvents, groupVars>>

\* processEvents called on its own
ProcessCall ==
    /\ result.status = "pending"
    /\ result' = ProcessEvents(allEvents, config, now, engine)
    /\ UNCHANGED <<config, now, engine, fetchVars, allEvents, groupVars>>

-----------------------------------------------------------------------------
(* Configurations and inputs *)

\* the card's defaults
DefaultConfig ==
    [entities |-> <<>>,
     numberOfDays |-> 7,
     startFromToday |-> FALSE,
     hidePastEvents |-> FALSE,
     showMultiDay |-> FALSE,
     eventsLimit |-> 99,
     ignoreEventsExpression |-> "",
     ignoreEventsByLocationExpression |-> ""]

\* the clock of every run: 08:00 on day 1
Clock == At(1, 8, 0)

\* a raw event of a source
Raw(key, start, end) == key @@ [start |-> start, end |-> end]

\* the descriptors a configuration may list
EntityPool ==
    {BareEntity("calendar.a"), BareEntity("calendar.b"), NamedEntity("calendar.c", "Work")}

\* config.entities: up to MaxSources descriptors, none twice
EntityLists ==
    {es \in SeqUpTo(EntityPool, MaxSources) :
        \A i, j \in 1..Len(es) : i # j => es[i] # es[j]}

\* the raw events a source may return
FetchPool ==
    {Raw([id |-> "e1", title |-> "Daily Standup"], At(1, 9, 0), At(1, 9, 30)),
     Raw([uid |-> "e2", title |-> "Fair"], At(1, 9, 0), At(3, 9, 0))}

\* what hass.callApi settles with: an array of raw events, or an error
Responses ==
    {[ok |-> TRUE, events |-> evs] : evs \in SeqUpTo(FetchPool, MaxResponse)}
    \cup {[ok |-> FALSE, error |-> "unavailable"]}

\* the configurations of the getAllEvents runs
FetchConfigs(es) ==
    {[DefaultConfig EXCEPT !.entities = es],
     [DefaultConfig EXCEPT !.entities = es, !.showMultiDay = TRUE, !.numberOfDays = MaxWindow,
                           !.ignoreEventsExpression = "standup"]}

IdleGroup ==
    /\ events = <<>>
    /\ groupedEvents = <<>>
    /\ gpc = "idle"
    /\ gi = 0
    /\ numberOfEvents = 0
    /\ hasMaxedOutEvents = FALSE
    /\ mappedGroups = <<>>
    /\ groupResult = <<>>

IdleFetch ==
    /\ response = <<>>
    /\ pc = <<>>
    /\ mapped = <<>>
    /\ failedEvents = <<>>

\* getAllEvents has issued one call per configured entity
Init ==
    /\ \E es \in EntityLists :
        /\ config \in FetchConfigs(es)
        /\ response \in [1..Len(es) -> Responses]
        /\ pc = [s \in 1..Len(es) |-> "pending"]
        /\ mapped = [s \in 1..Len(es) |-> <<>>]
    /\ now = Clock
    /\ engine \in Engines
    /\ allEvents = <<>>
    /\ failedEvents = <<>>
    /\ result = [status |-> "pending"]
    /\ IdleGroup

Next ==
    \/ \E s \in Sources : Tag(s)
    \/ \E s \in Sources : Push(s)
    \/ \E s \in Sources : Catch(s)
    \/ Return

Spec == Init /\ [][Next]_vars

-----------------------------------------------------------------------------
(* processEvents on its own *)

Work == NamedEntity("calendar.c", "Work")
Home == BareEntity("calendar.a")

\* raw events that differ in their id and uid
KeyPool ==
    {[entity |-> Work] @@ Raw(key @@ [title |-> t], At(1, 9, 0), At(1, 10, 0)) :
        key \in {[id |-> "e1"], [uid |-> "e1"], [id |-> "e1", uid |-> "u1"], [id |-> "u1"]},
        t \in {"Planning", "Review"}}

\* raw events that differ in their start and end
TimePool ==
    {[entity |-> Home] @@ Raw([id |-> "t1", title |-> "Lunch"], At(1, 9, 0), At(1, 10, 0)),
     [entity |-> Home] @@ Raw([id |-> "t2", title |-> "Night"], At(1, 22, 0), At(2, 0, 0)),
     [entity |-> Home] @@ Raw([id |-> "t3", title |-> "Fair"], At(1, 0, 0), At(3, 0, 0)),
     [entity |-> Home] @@ Raw([id |-> "t4", title |-> "Trip"], At(0, 20, 0), At(2, 6, 0)),
     [entity |-> Home] @@ Raw([id |-> "t5", title |-> "Done"], At(0, 9, 0), At(0, 10, 0)),
     [entity |-> Home] @@ Raw([id |-> "t6", title |-> "Early"], At(1, 7, 0), At(1, 7, 30))}

\* raw events that differ in their title and location
TextPool ==
    {[entity |-> Work] @@ Raw([id |-> "s1", title |-> "Daily Standup"], At(1, 9, 0), At(1, 9, 30)),
     [entity |-> Work] @@ Raw([id |-> "s2", location |-> "Head Office"], At(1, 9, 0), At(1, 9, 30)),
     [entity |-> Work] @@ Raw([id |-> "s3"], At(1, 11, 0), At(1, 12, 0))}

RawPool == KeyPool \cup TimePool \cup TextPool

ProcessConfigs ==
    {[DefaultConfig EXCEPT !.entities = <<Work, Home>>,
                           !.numberOfDays = n,
                           !.hidePastEvents = hide,
                           !.startFromToday = fromToday,
                           !.showMultiDay = multi,
                           !.ignoreEventsExpression = title,
                           !.ignoreEventsByLocationExpression = location] :
        n \in 1..MaxWindow, hide \in BOOLEAN, fromToday \in BOOLEAN, multi \in BOOLEAN,
        title \in {"", "standup", "("}, location \in {"", "office", "[a-"}}

InitProcess ==
    /\ config \in ProcessConfigs
    /\ now = Clock
    /\ engine \in Engines
    /\ allEvents \in SeqUpTo(RawPool, MaxRaw)
    /\ result = [status |-> "pending"]
    /\ IdleFetch
    /\ IdleGroup

NextProcess == ProcessCall

SpecProcess == InitProcess /\ [][NextProcess]_vars

-----------------------------------------------------------------------------
(* groupEventsByDay on its own *)

\* the start times of the events handed to groupEventsByDay
GroupStarts == {At(1, 9, 0), At(1, 15, 0), At(2, 9, 0), At(3, 0, 0)}

\* the events handed to groupEventsByDay
GroupPool ==
    {CalendarEvent([originCalendar |-> Home, entity |-> Home]
                   @@ Raw([id |-> "g"], t, t + 60)) : t \in GroupStarts}

InitGroup ==
    /\ \E limit \in 0..MaxLimit : config = [DefaultConfig EXCEPT !.eventsLimit = limit]
    /\ now = Clock
    /\ engine = "compare(tmp, element)"
    /\ events \in SeqUpTo(GroupPool, MaxGroupEvents)
    /\ allEvents = <<>>
    /\ result = [status |-> "pending"]
    /\ IdleFetch
    /\ groupedEvents = <<>>
    /\ gpc = "reduce"
    /\ gi = 0
    /\ numberOfEvents = 0
    /\ hasMaxedOutEvents = FALSE
    /\ mappedGroups = <<>>
    /\ groupResult = <<>>

NextGroup ==
    \/ GroupReduce
    \/ GroupMap
    \/ GroupReturn

SpecGroup == InitGroup /\ [][NextGroup]_vars

-----------------------------------------------------------------------------
(* Vocabulary of the properties, stated on inputs and outputs only *)

\* the sources whose call succeeded / failed
Succeeded == {s \in Sources : response[s].ok}
Failed == {s \in Sources : ~response[s].ok}

\* the display name of a configured descriptor
DisplayName(d) ==
    IF d.kind = "named" THEN (IF "name" \in DOMAIN d THEN d.name ELSE d.entity) ELSE d.value

\* raw event i of source s, carrying the descriptor of s
TaggedRaw(s, i) == [entity |-> config.entities[s]] @@ response[s].events[i]

\* every (source, index) of a raw event returned by a successful source
ReturnedRaw == {p \in Sources \X (1..MaxResponse + 1) :
                    p[1] \in Succeeded /\ p[2] <= Len(response[p[1]].events)}

\* the entry a failed source owes to failedEvents
OwedEntry(s) == [name |-> DisplayName(config.entities[s]), error |-> response[s].error]

Range(seq) == {seq[i] : i \in 1..Len(seq)}

IsSortedByStart(seq) ==
    \A i \in 1..(Len(seq) - 1) : seq[i].startDateTime <= seq[i + 1].startDateTime

\* the events of `seq` that start on day d, in the order of seq
EventsOn(seq, d) == SelectSeq(seq, LAMBDA e : DateOf(e.startDateTime) = d)

\* the days of `seq`, each once, in order of first appearance
DayOrder(seq) ==
    LET first == SelectSeq([i \in 1..Len(seq) |-> i],
                           LAMBDA i : \A j \in 1..(i - 1) :
                               DateOf(seq[j].startDateTime) # DateOf(seq[i].startDateTime))
    IN  [k \in 1..Len(first) |-> DateOf(seq[first[k]].startDateTime)]

\* the number of events of `seq` on the first k days of DayOrder(seq)
RECURSIVE Cumulative(_, _)
Cumulative(seq, k) ==
    IF k = 0 THEN 0
    ELSE Cumulative(seq, k - 1) + Len(EventsOn(seq, DayOrder(seq)[k]))

-----------------------------------------------------------------------------
(* C1 *)

\* C1: getAllEvents returns only after every source call has settled; at that
\* point failedEvents holds exactly one {name, error} entry per failed source,
\* and allEvents, the list handed to processEvents, holds every raw event of
\* every successful source tagged with that source's descriptor, whatever the
\* other sources did and in whatever order the calls completed.
C1_AllSourcesSettle ==
    result.status # "pending" =>
        /\ \A s \in Sources : pc[s] \in {"pushed", "failed"}
        /\ Len(failedEvents) = Cardinality(Failed)
        /\ \A x \in Range(failedEvents) \cup {OwedEntry(s) : s \in Failed} :
               Count(failedEvents, x)
                   = Cardinality({s \in Failed : OwedEntry(s) = x})
        /\ Len(allEvents) = Cardinality(ReturnedRaw)
        /\ \A x \in Range(allEvents) \cup {TaggedRaw(p[1], p[2]) : p \in ReturnedRaw} :
               Count(allEvents, x)
                   = Cardinality({p \in ReturnedRaw : TaggedRaw(p[1], p[2]) = x})

\* a run that returned with one source failed and another one's events collected
C1_Witness ==
    /\ result.status = "returned"
    /\ Cardinality(Sources) >= 2
    /\ pc[1] = "failed"
    /\ pc[2] = "pushed"
    /\ Len(failedEvents) = 1
    /\ Len(allEvents) >= 1

-----------------------------------------------------------------------------
(* C5 *)

\* C5 as stated: the events field is the day-grouped, limit-capped result,
\* groupEventsByDay applied to the output of processEvents.
C5_EventsAreDayGroups ==
    result.status = "returned" =>
        /\ \A i \in 1..Len(result.events) : DOMAIN result.events[i] = {"day", "events"}
        /\ result.events =
               GroupEventsByDay(ProcessEvents(allEvents, config, now, engine).events, config)

\* C5 amended: the events field is the flat list of processEvents: Events, not
\* DayGroups, every event that survives the pipeline (no eventsLimit cutoff), in
\* ascending startDateTime order.  groupEventsByDay applied to it gives groups
\* in ascending day order, no day twice, each holding in ascending startDateTime
\* order exactly the events of its day.
C5_EventsAreFlatSorted ==
    result.status = "returned" =>
        LET flat == result.events
            unique == UniqueEvents(allEvents)
            groups == GroupEventsByDay(flat, config)
        IN  /\ \A i \in 1..Len(flat) : "startDateTime" \in DOMAIN flat[i]
            /\ IsSortedByStart(flat)
            /\ Len(flat) = Len(NewEvents(unique, Len(unique), config, now).events)
            /\ \A k \in 1..(Len(groups) - 1) : groups[k].day < groups[k + 1].day
            /\ \A k \in 1..Len(groups) :
                   /\ groups[k].events = EventsOn(flat, groups[k].day)
                   /\ IsSortedByStart(groups[k].events)

\* a run that returned events of two different days
C5_Witness ==
    /\ result.status = "returned"
    /\ Len(result.events) >= 2
    /\ \E i, j \in 1..Len(result.events) :
           DateOf(result.events[i].startDateTime) # DateOf(result.events[j].startDateTime)

-----------------------------------------------------------------------------
(* C8 *)

\* C8: every returned event's originCalendar is the configured descriptor of
\* the source it was fetched from.
C8_OriginIsOwnSource ==
    result.status = "returned" =>
        \A i \in 1..Len(result.events) :
            result.events[i].originCalendar = result.events[i].rawEvent.entity

-----------------------------------------------------------------------------
(* C9 *)

\* the raw events of all successful sources in the order of config.entities
InConfigOrder ==
    Flatten([s \in 1..Len(config.entities) |->
                IF response[s].ok THEN TagEvents(response[s].events, config.entities[s])
                ELSE <<>>])

\* C9: the returned events do not depend on the order in which the calls
\* completed: they are what the run in which the sources complete in the order
\* of config.entities returns.
C9_OrderIndependent ==
    result.status = "returned" =>
        result.events = ProcessEvents(InConfigOrder, config, now, engine).events

-----------------------------------------------------------------------------
(* C2 *)

\* the emitted days are the first days of the input, each with all its events;
\* every emitted day but the last leaves the running total within the limit,
\* and a day is dropped only behind a day that took the total over the limit
C2_EmittedDays ==
    /\ gpc = "map" => (hasMaxedOutEvents <=> numberOfEvents > config.eventsLimit)
    /\ gpc = "done" =>
        LET days == DayOrder(events)
            n == Len(groupResult)
        IN  /\ n <= Len(days)
            /\ \A k \in 1..n :
                   /\ groupResult[k].day = days[k]
                   /\ groupResult[k].events = EventsOn(events, days[k])
            /\ \A k \in 1..(n - 1) : Cumulative(events, k) <= config.eventsLimit
            /\ n < Len(days) => Cumulative(events, n) > config.eventsLimit

\* C2: the limit is enforced by whole days: an emitted day carries all of its
\* events, the first day that takes the running total over eventsLimit is
\* emitted in full and every later day is dropped, and once maxed out the
\* loop never goes back to accumulating.
C2_LimitIsDayAtomic ==
    /\ []C2_EmittedDays
    /\ [][hasMaxedOutEvents => hasMaxedOutEvents']_vars

\* a finished run that kept two days and dropped a later one
C2_Witness ==
    /\ gpc = "done"
    /\ hasMaxedOutEvents
    /\ Len(groupResult) = 2
    /\ Len(groupResult[2].events) >= 2
    /\ Len(DayOrder(events)) = 3

-----------------------------------------------------------------------------
(* C3 *)

\* C3 as stated: a day after which the running total equals eventsLimit
\* exactly is the last day emitted.
C3_MaxedAtLimit ==
    gpc = "done" =>
        \A k \in 1..Len(groupResult) :
            Cumulative(events, k) = config.eventsLimit => k = Len(groupResult)

\* C3 amended: a day after which the running total equals eventsLimit exactly
\* does not max out the loop: the next day, if there is one, is emitted with
\* all of its events (eventsLimit = 2, two events on day 1 and one on day 2:
\* both days are in the output).
C3_NextDayKeptAtLimit ==
    gpc = "done" =>
        LET days == DayOrder(events)
        IN  \A k \in 1..(Len(days) - 1) :
                (k <= Len(groupResult) /\ Cumulative(events, k) = config.eventsLimit)
                    => /\ Len(groupResult) >= k + 1
                       /\ groupResult[k + 1].day = days[k + 1]
                       /\ groupResult[k + 1].events = EventsOn(events, days[k + 1])

\* the scenario: limit 2, two events on day 1, one on day 2, both days emitted
C3_Witness ==
    /\ gpc = "done"
    /\ config.eventsLimit = 2
    /\ Len(events) = 3
    /\ DayOrder(events) = <<1, 2>>
    /\ Len(EventsOn(events, 1)) = 2
    /\ Len(groupResult) = 2

-----------------------------------------------------------------------------
(* Vocabulary of the processEvents properties *)

\* the deduplication key of a raw event: its uid if present, else its id
KeyOf(raw) == IF "uid" \in DOMAIN raw THEN raw.uid ELSE raw.id

\* the configuration applies no filter and no expansion
PassThrough ==
    /\ ~config.hidePastEvents
    /\ ~config.startFromToday
    /\ ~config.showMultiDay
    /\ config.ignoreEventsExpression = ""
    /\ config.ignoreEventsByLocationExpression = ""

\* the raw record an output event was built from, as the source delivered it
Delivered(event) ==
    [f \in DOMAIN event.rawEvent \ {"originCalendar", "addDays", "daysLong"}
        |-> event.rawEvent[f]]

\* the list processEvents sorts
Unsorted ==
    LET unique == UniqueEvents(allEvents)
    IN  NewEvents(unique, Len(unique), config, now).events

\* the position of an event in a list without repetitions
PositionIn(seq, e) == CHOOSE i \in 1..Len(seq) : seq[i] = e

\* a pattern is set and does not compile
BadPattern(pattern) == pattern # "" /\ pattern \in InvalidPatterns

\* the filter chain lets the raw event through
PassesFilters(raw) ==
    /\ ~(config.hidePastEvents /\ raw.end < now)
    /\ ~(config.startFromToday /\ StartOfDay(now) > raw.end)
    /\ ~(config.ignoreEventsExpression # "" /\ "title" \in DOMAIN raw
            /\ RegexTest(config.ignoreEventsExpression, raw.title))
    /\ ~(config.ignoreEventsByLocationExpression # "" /\ "location" \in DOMAIN raw
            /\ RegexTest(config.ignoreEventsByLocationExpression, raw.location))

-----------------------------------------------------------------------------
(* C4 *)

\* C4: deduplication keeps, for every key (uid if present, else id) of the
\* input, exactly one event: the first event of the input with that key.
C4_FirstOfEachKeyKept ==
    (result.status = "ok" /\ PassThrough) =>
        \A i \in 1..Len(allEvents) :
            LET first == CHOOSE j \in 1..Len(allEvents) :
                            /\ KeyOf(allEvents[j]) = KeyOf(allEvents[i])
                            /\ \A k \in 1..(j - 1) : KeyOf(allEvents[k]) # KeyOf(allEvents[i])
                same == {o \in 1..Len(result.events) :
                            KeyOf(result.events[o].rawEvent) = KeyOf(allEvents[i])}
            IN  /\ Cardinality(same) = 1
                /\ \A o \in same : Delivered(result.events[o]) = allEvents[first]

-----------------------------------------------------------------------------
(* C6 *)

\* C6: the returned list is in ascending startDateTime order, and events with
\* equal startDateTime are in the order they had before the sort.
C6_SortedAndStable ==
    result.status = "ok" =>
        /\ IsSortedByStart(result.events)
        /\ \A i, j \in 1..Len(result.events) :
               (i < j /\ result.events[i].startDateTime = result.events[j].startDateTime)
                   => PositionIn(Unsorted, result.events[i])
                          < PositionIn(Unsorted, result.events[j])

-----------------------------------------------------------------------------
(* C7 *)

\* C7: with an ignore expression that is set and does not compile, a run of
\* processEvents ends in an error, whatever the events.
C7_BadPatternThrows ==
    (result.status # "pending"
        /\ (BadPattern(config.ignoreEventsExpression)
            \/ BadPattern(config.ignoreEventsByLocationExpression)))
        => result.status = "threw"

-----------------------------------------------------------------------------
(* C10 *)

\* C10: with showMultiDay on, every multi-day event that survives deduplication
\* and the filters and starts before today + numberOfDays has at least one
\* occurrence in the returned list.
C10_MultiDayNeverLost ==
    (result.status = "ok" /\ config.showMultiDay) =>
        \A raw \in Range(UniqueEvents(allEvents)) :
            (/\ DateOf(raw.end) # DateOf(raw.start)
             /\ PassesFilters(raw)
             /\ raw.start < AddDays(StartOfDay(now), config.numberOfDays))
                => \E o \in 1..Len(result.events) : Delivered(result.events[o]) = raw

====
